---- MODULE Spec2Model ----
(***************************************************************************)
(* Video Swin Transformer layer helpers of keras_cv                        *)
(* (keras_cv/layers/video_swin_transformer_layers.py): window_partition,   *)
(* window_reverse, get_window_size, compute_mask and the MLP layer.        *)
(*                                                                         *)
(* A tensor is a record [shape, data]: shape is the sequence of its        *)
(* dimensions and data its elements in row-major (C) order, which is the   *)
(* order ops.reshape and ops.transpose of the backend work in.  Axis       *)
(* numbers and permutations are 0-based as in the source; TLA+ sequences   *)
(* are 1-based, hence the "+ 1" where an axis number indexes a sequence.   *)
(***************************************************************************)
EXTENDS Integers, Sequences, FiniteSets

VARIABLES
    pc,           \* position of the operation under study
    x,            \* window_partition: the input tensor (B, D, H, W, C)
    window_size,  \* the window_size argument (wd, wh, ww)
    windows,      \* window_partition's result (in compute_mask: mask_windows)
    restored,     \* window_reverse's result
    x_size,       \* get_window_size: the x_size argument
    shift_size,   \* the shift_size argument (a tuple, or NoShift for None)
    gws,          \* get_window_size's return value
    vol,          \* compute_mask: <<depth, height, width>>
    img_mask,     \* compute_mask: the labelled volume (1, D, H, W, 1)
    writes,       \* compute_mask: per voxel, the cnt values assigned to it, in order
    attn_mask,    \* compute_mask's result
    args,         \* MLP: the constructor's arguments
    layer,        \* the MLP layer object
    weights,      \* MLP.build: the kernels and biases of fc1 and fc2
    inp,          \* MLP.call: the input tensor
    training,     \* MLP.call: the training flag
    out,          \* MLP.call: the local x, at the end the output tensor
    config,       \* layer.get_config()
    layer2,       \* MLP(**config)
    config2       \* layer2.get_config()

vars == <<pc, x, window_size, windows, restored, x_size, shift_size, gws, vol,
          img_mask, writes, attn_mask, args, layer, weights, inp, training,
          out, config, layer2, config2>>

----------------------------------------------------------------------------
(* Bounds of the model *)

MaxBatch == 2
MaxDim == 4
MaxChannel == 2
\* get_window_size: the largest x_size and window_size entry, and shift entry
MaxSize == 3
MaxShift == 2
\* compute_mask: the largest depth, height and width, and the largest volume
MaxVol == 4
MaxVoxels == 32
\* MLP: the largest number of units of a Dense layer and of input channels,
\* the largest number of rows and tokens of an input, and the number of
\* leading elements a dropout may drop
MaxUnits == 2
MaxRows == 2
MaxDrop == 2

\* the value of a variable that the specification at hand does not use
Null == [shape |-> <<>>, data |-> <<>>]

----------------------------------------------------------------------------
(* Tensor primitives of the backend, as the source uses them *)

RECURSIVE ProdFrom(_, _)
\* product of shape[i..Len(shape)]
ProdFrom(shape, i) ==
    IF i > Len(shape) THEN 1 ELSE shape[i] * ProdFrom(shape, i + 1)

Size(t) == Len(t.data)

\* row-major strides of a shape
Strides(shape) == [i \in 1..Len(shape) |-> ProdFrom(shape, i + 1)]

RECURSIVE SumTo(_, _)
SumTo(f, n) == IF n = 0 THEN 0 ELSE f[n] + SumTo(f, n - 1)

\* 0-based flat offset of a 0-based multi-index
Ravel(idx, shape) ==
    LET st == Strides(shape)
    IN  SumTo([i \in 1..Len(shape) |-> idx[i] * st[i]], Len(shape))

\* element of t at a 0-based multi-index
At(t, idx) == t.data[Ravel(idx, t.shape) + 1]

\* a target shape of ops.reshape with its -1 entry (if any) inferred
Resolve(shape, total) ==
    LET known == ProdFrom([i \in 1..Len(shape) |->
                              IF shape[i] = -1 THEN 1 ELSE shape[i]], 1)
    IN  [i \in 1..Len(shape) |->
            IF shape[i] = -1
            THEN (IF known = 0 THEN 0 ELSE total \div known)
            ELSE shape[i]]

\* ops.reshape raises unless the target shape holds exactly the elements
ReshapeOK(t, shape) == ProdFrom(Resolve(shape, Size(t)), 1) = Size(t)

\* ops.reshape: same elements in the same row-major order, new shape
Reshape(t, shape) == [shape |-> Resolve(shape, Size(t)), data |-> t.data]

\* ops.transpose: axis i of the result is axis perm[i] of the argument
Transpose(t, perm) ==
    LET n == Len(t.shape)
        ns == [i \in 1..n |-> t.shape[perm[i] + 1]]
        ost == Strides(t.shape)
        nst == Strides(ns)
        src(k) == SumTo([i \in 1..n |->
                            ((k \div nst[i]) % ns[i]) * ost[perm[i] + 1]], n)
    IN  [shape |-> ns,
         data |-> [k \in 1..Size(t) |-> t.data[src(k - 1) + 1]]]

----------------------------------------------------------------------------
(* window_partition and window_reverse *)

\* the first reshape of window_partition
PartitionShape(t, ws) ==
    <<t.shape[1],
      t.shape[2] \div ws[1], ws[1],
      t.shape[3] \div ws[2], ws[2],
      t.shape[4] \div ws[3], ws[3],
      t.shape[5]>>

\* window_partition raises (in its first reshape) unless every window size
\* divides its axis
PartitionRaises(t, ws) == ~ReshapeOK(t, PartitionShape(t, ws))

\* mutant: the in-window depth and height axes are transposed in the wrong order
window_partition_swapped(t, ws) ==
    LET r == Reshape(t, PartitionShape(t, ws))
        p == Transpose(r, <<0, 1, 3, 5, 4, 2, 6, 7>>)
    IN  Reshape(p, <<-1, ws[1] * ws[2] * ws[3], t.shape[5]>>)

\* mutant: the channel axis is transposed into the window
window_partition_channel(t, ws) ==
    LET r == Reshape(t, PartitionShape(t, ws))
        p == Transpose(r, <<0, 1, 3, 5, 2, 4, 7, 6>>)
    IN  Reshape(p, <<-1, ws[1] * ws[2] * ws[3], t.shape[5]>>)

window_partition(t, ws) ==
    LET r == Reshape(t, PartitionShape(t, ws))
        p == Transpose(r, <<0, 1, 3, 5, 2, 4, 6, 7>>)
    IN  Reshape(p, <<-1, ws[1] * ws[2] * ws[3], t.shape[5]>>)

ReverseShape(ws, batch_size, depth, height, width) ==
    <<batch_size, depth \div ws[1], height \div ws[2], width \div ws[3],
      ws[1], ws[2], ws[3], -1>>

\* mutant: the transpose of window_partition is repeated instead of inverted
window_reverse_same_perm(w, ws, batch_size, depth, height, width) ==
    LET r == Reshape(w, ReverseShape(ws, batch_size, depth, height, width))
        p == Transpose(r, <<0, 1, 3, 5, 2, 4, 6, 7>>)
    IN  Reshape(p, <<batch_size, depth, height, width, -1>>)

window_reverse(w, ws, batch_size, depth, height, width) ==
    LET r == Reshape(w, ReverseShape(ws, batch_size, depth, height, width))
        p == Transpose(r, <<0, 1, 4, 2, 5, 3, 6, 7>>)
    IN  Reshape(p, <<batch_size, depth, height, width, -1>>)

\* the tensors fed to window_partition: every element is its own row-major
\* offset, so the elements are distinct and an element of a result names the
\* input position it came from (reshape and transpose never read the values)
Iota(shape) ==
    [shape |-> shape, data |-> [k \in 1..ProdFrom(shape, 1) |-> k - 1]]

Dims == 1..MaxDim

InitWin ==
    /\ pc = "partition"
    /\ \E b \in 1..MaxBatch, d \in Dims, h \in Dims, w \in Dims,
          c \in 1..MaxChannel :
          x = Iota(<<b, d, h, w, c>>)
    /\ window_size \in Dims \X Dims \X Dims
    /\ windows = Null /\ restored = Null
    /\ x_size = <<>> /\ shift_size = <<>> /\ gws = <<>>
    /\ vol = <<>> /\ img_mask = Null /\ writes = <<>> /\ attn_mask = Null
    /\ args = Null /\ layer = Null /\ weights = Null /\ inp = Null /\ training = FALSE /\ out = Null
    /\ config = Null /\ layer2 = Null /\ config2 = Null

mlpVars == <<args, layer, weights, inp, training, out, config, layer2, config2>>

otherWin == <<x_size, shift_size, gws, vol, img_mask, writes, attn_mask, mlpVars>>

\* windows = window_partition(x, window_size)
Partition ==
    /\ pc = "partition"
    /\ ~PartitionRaises(x, window_size)
    /\ windows' = window_partition(x, window_size)
    /\ pc' = "reverse"
    /\ UNCHANGED <<x, window_size, restored>>
    /\ UNCHANGED otherWin

\* window_partition raises: the reshape does not fit
PartitionError ==
    /\ pc = "partition"
    /\ PartitionRaises(x, window_size)
    /\ pc' = "error"
    /\ UNCHANGED <<x, window_size, windows, restored>>
    /\ UNCHANGED otherWin

\* restored = window_reverse(windows, window_size, B, D, H, W)
Reverse ==
    /\ pc = "reverse"
    /\ restored' = window_reverse(windows, window_size, x.shape[1],
                                  x.shape[2], x.shape[3], x.shape[4])
    /\ pc' = "done"
    /\ UNCHANGED <<x, window_size, windows>>
    /\ UNCHANGED otherWin

NextWin == Partition \/ PartitionError \/ Reverse

SpecWin == InitWin /\ [][NextWin]_vars

----------------------------------------------------------------------------
(* Claims about window_partition and window_reverse *)

Partitioned == pc \in {"reverse", "done"}

\* the input's dimensions and the number of windows per axis
xB == x.shape[1]
xD == x.shape[2]
xH == x.shape[3]
xW == x.shape[4]
xC == x.shape[5]
nD == xD \div window_size[1]
nH == xH \div window_size[2]
nW == xW \div window_size[3]
WinLen == window_size[1] * window_size[2] * window_size[3]

\* C1: window_reverse(window_partition(x, window_size), window_size, B, D, H, W)
\* equals x element for element (same shape, same value at every index),
\* whenever every window size divides its axis.
C1_RoundTrip ==
    pc = "done" =>
        /\ restored.shape = x.shape
        /\ \A k \in 1..Size(x) : restored.data[k] = x.data[k]

\* a round trip with two batch items, several windows on every axis and
\* several elements per window on every axis
C1_Witness ==
    /\ pc = "done"
    /\ x.shape = <<2, 4, 4, 4, 2>>
    /\ window_size = <<2, 2, 2>>
    /\ restored = x

\* C2: the result of window_partition has shape (B * num_windows, wd*wh*ww, C)
\* with num_windows = (D/wd)*(H/wh)*(W/ww), and every input element appears at
\* exactly one output position, in its own channel: nothing is duplicated,
\* dropped or moved to another channel.  The elements of x are the offsets
\* 0..Size(x)-1: as many output positions as elements and every element at
\* some position, so each at exactly one; the channel of offset v is v % C.
C2_Cover ==
    Partitioned =>
        /\ windows.shape = <<xB * (nD * nH * nW), WinLen, xC>>
        /\ Size(windows) = Size(x)
        /\ {windows.data[j] : j \in 1..Size(windows)} = 0..(Size(x) - 1)
        /\ \A j \in 1..Size(windows) : windows.data[j] % xC = (j - 1) % xC

\* a partition into several windows of several elements and channels
C2_Witness ==
    /\ Partitioned
    /\ x.shape = <<2, 2, 4, 2, 2>>
    /\ window_size = <<1, 2, 2>>
    /\ windows.shape = <<8, 4, 2>>

\* C6: with nD = D/wd, nH = H/wh, nW = W/ww, the output at window row
\* n = ((b*nD + i)*nH + j)*nW + k and in-window position p = (a*wh + e)*ww + f
\* equals x[b, i*wd + a, j*wh + e, k*ww + f, c].
C6_IndexMap ==
    Partitioned =>
        \A b \in 0..(xB - 1), i \in 0..(nD - 1), j \in 0..(nH - 1),
           k \in 0..(nW - 1) :
            \A a \in 0..(window_size[1] - 1), e \in 0..(window_size[2] - 1),
               f \in 0..(window_size[3] - 1), c \in 0..(xC - 1) :
                At(windows, <<((b * nD + i) * nH + j) * nW + k,
                              (a * window_size[2] + e) * window_size[3] + f,
                              c>>)
                  = At(x, <<b, i * window_size[1] + a, j * window_size[2] + e,
                            k * window_size[3] + f, c>>)

\* a partition whose windows differ in size on every axis: the second window
\* along the width starts with the input's element at w = 2
C6_Witness ==
    /\ Partitioned
    /\ x.shape = <<1, 4, 3, 4, 1>>
    /\ window_size = <<4, 3, 2>>
    /\ At(windows, <<1, 0, 0>>) = At(x, <<0, 0, 0, 2, 0>>)
    /\ At(windows, <<0, 2, 0>>) = At(x, <<0, 0, 1, 0, 0>>)

----------------------------------------------------------------------------
(* get_window_size *)

\* shift_size=None
NoShift == <<>>

RECURSIVE gws_loop_strict(_, _, _, _, _, _)
\* mutant: the comparison is strict
gws_loop_strict(i, xs, ws, ss, use_window_size, use_shift_size) ==
    IF i >= Len(xs) THEN [w |-> use_window_size, s |-> use_shift_size]
    ELSE IF xs[i + 1] < ws[i + 1]
         THEN gws_loop_strict(i + 1, xs, ws, ss,
                       [use_window_size EXCEPT ![i + 1] = xs[i + 1]],
                       IF ss # NoShift
                       THEN [use_shift_size EXCEPT ![i + 1] = 0]
                       ELSE use_shift_size)
         ELSE gws_loop_strict(i + 1, xs, ws, ss, use_window_size, use_shift_size)

RECURSIVE gws_loop(_, _, _, _, _, _)
\* the for loop, from axis i (0-based) on; use_shift_size is only touched
\* when shift_size is not None
gws_loop(i, xs, ws, ss, use_window_size, use_shift_size) ==
    IF i >= Len(xs) THEN [w |-> use_window_size, s |-> use_shift_size]
    ELSE IF xs[i + 1] <= ws[i + 1]
         THEN gws_loop(i + 1, xs, ws, ss,
                       [use_window_size EXCEPT ![i + 1] = xs[i + 1]],
                       IF ss # NoShift
                       THEN [use_shift_size EXCEPT ![i + 1] = 0]
                       ELSE use_shift_size)
         ELSE gws_loop(i + 1, xs, ws, ss, use_window_size, use_shift_size)

get_window_size(xs, ws, ss) ==
    LET r == gws_loop(0, xs, ws, ss, ws, ss)
    IN  IF ss = NoShift THEN r.w ELSE <<r.w, r.s>>

Sizes == 1..MaxSize
Shifts == 0..MaxShift

InitGws ==
    /\ pc = "get_window_size"
    /\ x_size \in Sizes \X Sizes \X Sizes
    /\ window_size \in Sizes \X Sizes \X Sizes
    /\ shift_size \in {NoShift} \cup (Shifts \X Shifts \X Shifts)
    /\ gws = <<>>
    /\ x = Null /\ windows = Null /\ restored = Null
    /\ vol = <<>> /\ img_mask = Null /\ writes = <<>> /\ attn_mask = Null
    /\ args = Null /\ layer = Null /\ weights = Null /\ inp = Null /\ training = FALSE /\ out = Null
    /\ config = Null /\ layer2 = Null /\ config2 = Null

\* gws = get_window_size(x_size, window_size, shift_size)
GetWindowSize ==
    /\ pc = "get_window_size"
    /\ gws' = get_window_size(x_size, window_size, shift_size)
    /\ pc' = "done"
    /\ UNCHANGED <<x, window_size, windows, restored, x_size, shift_size, vol,
                   img_mask, writes, attn_mask, mlpVars>>

NextGws == GetWindowSize

SpecGws == InitGws /\ [][NextGws]_vars

\* the window size the claim describes, per axis
Clamped == [i \in 1..Len(x_size) |->
               IF x_size[i] <= window_size[i] THEN x_size[i] ELSE window_size[i]]

\* C3 as stated: the returned window size is x_size[i] when
\* x_size[i] <= window_size[i] and window_size[i] otherwise, never more than
\* x_size[i]; with a shift_size the result is the pair (window, shift) whose
\* shift is 0 EXACTLY on the axes where x_size[i] <= window_size[i] and
\* shift_size[i] on all other axes; with shift_size None the result is the
\* window tuple alone.
C3_AsStated ==
    pc = "done" =>
        IF shift_size = NoShift
        THEN gws = Clamped
        ELSE /\ Len(gws) = 2
             /\ gws[1] = Clamped
             /\ \A i \in 1..Len(x_size) :
                   /\ gws[1][i] <= x_size[i]
                   /\ (gws[2][i] = 0) <=> (x_size[i] <= window_size[i])
                   /\ x_size[i] > window_size[i] => gws[2][i] = shift_size[i]

\* C3 amended: as stated, but the returned shift is 0 ON (not exactly on) the
\* axes where x_size[i] <= window_size[i] and shift_size[i] on all other
\* axes, where it is 0 too when shift_size[i] is 0.
C3_Clamp ==
    pc = "done" =>
        IF shift_size = NoShift
        THEN /\ gws = Clamped
             /\ \A i \in 1..Len(x_size) : gws[i] <= x_size[i]
        ELSE /\ Len(gws) = 2
             /\ gws[1] = Clamped
             /\ \A i \in 1..Len(x_size) :
                   /\ gws[1][i] <= x_size[i]
                   /\ gws[2][i] = IF x_size[i] <= window_size[i]
                                  THEN 0 ELSE shift_size[i]

\* a call that clamps one axis by equality, one by a smaller input, and
\* leaves the third with its shift
C3_Witness ==
    /\ pc = "done"
    /\ x_size = <<2, 1, 3>>
    /\ window_size = <<2, 3, 2>>
    /\ shift_size = <<1, 1, 1>>
    /\ gws = <<(<<2, 1, 2>>), (<<0, 0, 1>>)>>

----------------------------------------------------------------------------
(* compute_mask *)

\* the value ops.where writes where two positions differ in label
Masked == -100

Min(a, b) == IF a < b THEN a ELSE b
Max(a, b) == IF a > b THEN a ELSE b

\* a slice bound on an axis of length n: a negative bound counts from the
\* end, and the result is clipped to 0..n (-0 is 0: the start of the axis)
PyBound(i, n) == IF i < 0 THEN Max(i + n, 0) ELSE Min(i, n)

\* the indices (0-based) that slice(stop), slice(start, stop) and
\* slice(start, None) select on an axis of length n
SliceTo(n, stop) == 0..(PyBound(stop, n) - 1)
SliceBetween(n, start, stop) == PyBound(start, n)..(PyBound(stop, n) - 1)
SliceFrom(n, start) == PyBound(start, n)..(n - 1)

\* mutant: the third slice starts at -window_size
AxisSlices_third_from_window(n, w, s) ==
    <<SliceTo(n, -w), SliceBetween(n, -w, -s), SliceFrom(n, -w)>>

\* mutant: the third slice starts one element early
AxisSlices_off_by_one(n, w, s) ==
    <<SliceTo(n, -w), SliceBetween(n, -w, -s), SliceFrom(n, -s - 1)>>

\* the three slices the loops of compute_mask run through on one axis
AxisSlices(n, w, s) ==
    <<SliceTo(n, -w), SliceBetween(n, -w, -s), SliceFrom(n, -s)>>

RECURSIVE LoopTrace(_, _, _, _, _)
\* the three nested for loops, entered at slices di, hi, wi (0-based) with
\* the counter at cnt: the assignments img_mask[:, d, h, w, :] = cnt they
\* make, in order, each as the slices' numbers and the value assigned
LoopTrace(di, hi, wi, cnt, done) ==
    IF di = 3 THEN done
    ELSE IF hi = 3 THEN LoopTrace(di + 1, 0, 0, cnt, done)
    ELSE IF wi = 3 THEN LoopTrace(di, hi + 1, 0, cnt, done)
    ELSE LoopTrace(di, hi, wi + 1, cnt + 1,
                   Append(done, [d |-> di, h |-> hi, w |-> wi, cnt |-> cnt]))

RECURSIVE Assigned(_, _, _, _, _, _)
\* the values that the assignments from the i-th on give to voxel (d, h, w),
\* in order; sl is the triple of the axes' slices
Assigned(trace, i, sl, d, h, w) ==
    IF i > Len(trace) THEN <<>>
    ELSE LET a == trace[i]
             rest == Assigned(trace, i + 1, sl, d, h, w)
         IN  IF /\ d \in sl[1][a.d + 1]
                /\ h \in sl[2][a.h + 1]
                /\ w \in sl[3][a.w + 1]
             THEN <<a.cnt>> \o rest
             ELSE rest

\* the assignments of a run of the loops (the same for every input)
Assignments == LoopTrace(0, 0, 0, 0, <<>>)

\* per voxel of a volume v (in row-major order), the values the loops assign
\* to it, in order
LabelRegions(v, ws, ss) ==
    LET sl == <<AxisSlices(v[1], ws[1], ss[1]),
                AxisSlices(v[2], ws[2], ss[2]),
                AxisSlices(v[3], ws[3], ss[3])>>
    IN  [k \in 1..(v[1] * v[2] * v[3]) |->
            Assigned(Assignments, 1, sl, (k - 1) \div (v[2] * v[3]),
                     ((k - 1) \div v[3]) % v[2], (k - 1) % v[3])]

\* img_mask after the loops: np.zeros((1, depth, height, width, 1)), and then
\* every voxel holds the last value assigned to it
LabelledMask(v, wr) ==
    [shape |-> <<1, v[1], v[2], v[3], 1>>,
     data |-> [k \in 1..Len(wr) |->
                  IF wr[k] = <<>> THEN 0 ELSE wr[k][Len(wr[k])]]]

\* ops.squeeze(t, axis=-1)
SqueezeLast(t) == Reshape(t, SubSeq(t.shape, 1, Len(t.shape) - 1))

\* ops.expand_dims(t, axis), axis 0-based
ExpandDims(t, axis) ==
    Reshape(t, SubSeq(t.shape, 1, axis) \o <<1>>
               \o SubSeq(t.shape, axis + 1, Len(t.shape)))

\* a - b of two tensors of one rank, with broadcasting: an axis of length 1
\* is read at index 0 whatever the index of the result
BroadcastSub(a, b) ==
    LET n == Len(a.shape)
        sh == [i \in 1..n |-> Max(a.shape[i], b.shape[i])]
        st == Strides(sh)
        sta == Strides(a.shape)
        stb == Strides(b.shape)
        off(k, t, stt) ==
            SumTo([i \in 1..n |->
                      IF t.shape[i] = 1 THEN 0
                      ELSE ((k \div st[i]) % sh[i]) * stt[i]], n)
    IN  [shape |-> sh,
         data |-> [k \in 1..ProdFrom(sh, 1) |->
                      a.data[off(k - 1, a, sta) + 1]
                        - b.data[off(k - 1, b, stb) + 1]]]

\* mutant: the first ops.where masks the equal labels
AttnMask_equal_masked(mask_windows) ==
    LET d == BroadcastSub(ExpandDims(mask_windows, 1),
                          ExpandDims(mask_windows, 2))
        m == [d EXCEPT !.data = [k \in 1..Size(d) |->
                                    LET v == d.data[k]
                                    IN  IF v = 0 THEN Masked ELSE v]]
    IN  [m EXCEPT !.data = [k \in 1..Size(m) |->
                               LET v == m.data[k]
                               IN  IF v = 0 THEN 0 ELSE v]]

\* the difference of the labels and the two ops.where, on the squeezed
\* mask_windows of shape (num_windows, N)
AttnMask(mask_windows) ==
    LET d == BroadcastSub(ExpandDims(mask_windows, 1),
                          ExpandDims(mask_windows, 2))
        m == [d EXCEPT !.data = [k \in 1..Size(d) |->
                                    LET v == d.data[k]
                                    IN  IF v # 0 THEN Masked ELSE v]]
    IN  [m EXCEPT !.data = [k \in 1..Size(m) |->
                               LET v == m.data[k]
                               IN  IF v = 0 THEN 0 ELSE v]]

Vols == 1..MaxVol

\* compute_mask is called with get_window_size's window and shift and the
\* padded sizes: on every axis 0 <= shift < window <= size
InitMask ==
    /\ pc = "label"
    /\ vol \in Vols \X Vols \X Vols
    /\ vol[1] * vol[2] * vol[3] <= MaxVoxels
    /\ window_size \in Vols \X Vols \X Vols
    /\ shift_size \in (0..(MaxVol - 1)) \X (0..(MaxVol - 1)) \X (0..(MaxVol - 1))
    /\ \A i \in 1..3 : shift_size[i] < window_size[i] /\ window_size[i] <= vol[i]
    /\ img_mask = Null /\ writes = <<>> /\ windows = Null /\ attn_mask = Null
    /\ x = Null /\ restored = Null
    /\ x_size = <<>> /\ gws = <<>>
    /\ args = Null /\ layer = Null /\ weights = Null /\ inp = Null /\ training = FALSE /\ out = Null
    /\ config = Null /\ layer2 = Null /\ config2 = Null

otherMask == <<x, restored, x_size, gws, mlpVars>>

\* the loops that label img_mask
Label ==
    /\ pc = "label"
    /\ writes' = LabelRegions(vol, window_size, shift_size)
    /\ img_mask' = LabelledMask(vol, writes')
    /\ pc' = "windows"
    /\ UNCHANGED <<vol, window_size, shift_size, windows, attn_mask>>
    /\ UNCHANGED otherMask

\* mask_windows = window_partition(img_mask, window_size)
PartitionMask ==
    /\ pc = "windows"
    /\ ~PartitionRaises(img_mask, window_size)
    /\ windows' = window_partition(img_mask, window_size)
    /\ pc' = "mask"
    /\ UNCHANGED <<vol, window_size, shift_size, img_mask, writes, attn_mask>>
    /\ UNCHANGED otherMask

\* window_partition raises: a window size does not divide its axis
PartitionMaskError ==
    /\ pc = "windows"
    /\ PartitionRaises(img_mask, window_size)
    /\ pc' = "error"
    /\ UNCHANGED <<vol, window_size, shift_size, img_mask, writes, windows,
                   attn_mask>>
    /\ UNCHANGED otherMask

\* the squeeze, the difference of the labels and the two ops.where
BuildMask ==
    /\ pc = "mask"
    /\ attn_mask' = AttnMask(SqueezeLast(windows))
    /\ pc' = "done"
    /\ UNCHANGED <<vol, window_size, shift_size, img_mask, writes, windows>>
    /\ UNCHANGED otherMask

NextMask == Label \/ PartitionMask \/ PartitionMaskError \/ BuildMask

SpecMask == InitMask /\ [][NextMask]_vars

----------------------------------------------------------------------------
(* Claims about compute_mask *)

\* the loops have run (img_mask and writes do not change afterwards)
Labelled == pc = "windows"

\* the label of voxel (d, h, w) in the labelled volume
LabelAt(d, h, w) == At(img_mask, <<0, d, h, w, 0>>)

\* the number of windows along axis i, and the length of a window
NumWin(i) == vol[i] \div window_size[i]
NumWindows == NumWin(1) * NumWin(2) * NumWin(3)

\* the window (block numbers per axis) of window row n, and the voxel at
\* position p of window row n, by the index mapping of window_partition
BlockOf(n) == <<n \div (NumWin(2) * NumWin(3)), (n \div NumWin(3)) % NumWin(2),
                n % NumWin(3)>>
VoxelOf(n, p) ==
    LET blk == BlockOf(n)
    IN  <<(blk[1] * window_size[1]) + (p \div (window_size[2] * window_size[3])),
          (blk[2] * window_size[2]) + ((p \div window_size[3]) % window_size[2]),
          (blk[3] * window_size[3]) + (p % window_size[3])>>
LabelOf(n, p) == LET v == VoxelOf(n, p) IN LabelAt(v[1], v[2], v[3])

\* C7: for sizes divisible by the window sizes, the result has shape
\* (num_windows, N, N) with N = wd*wh*ww; every entry is 0 or -100; entry
\* [n, p, q] is 0 exactly when positions p and q of window n carry the same
\* region label in the labelled volume; hence the mask is symmetric in (p, q)
\* and its diagonal is 0.
C7_MaskValues ==
    pc = "done" =>
        /\ attn_mask.shape = <<NumWindows, WinLen, WinLen>>
        /\ \A n \in 0..(NumWindows - 1), p \in 0..(WinLen - 1),
              q \in 0..(WinLen - 1) :
              LET e == At(attn_mask, <<n, p, q>>)
              IN  /\ e \in {0, -100}
                  /\ (e = 0) <=> (LabelOf(n, p) = LabelOf(n, q))
                  /\ e = At(attn_mask, <<n, q, p>>)
                  /\ p = q => e = 0

\* a mask of four windows: in the last one the first position is masked from
\* the last and not from itself; in the first one, which only the depth
\* divides, the first position is masked from the second depth slice alone
C7_Witness ==
    /\ pc = "done"
    /\ vol = <<2, 4, 4>>
    /\ window_size = <<2, 2, 2>>
    /\ shift_size = <<1, 1, 1>>
    /\ attn_mask.shape = <<4, 8, 8>>
    /\ At(attn_mask, <<3, 0, 7>>) = -100
    /\ At(attn_mask, <<3, 0, 0>>) = 0
    /\ At(attn_mask, <<0, 0, 3>>) = 0
    /\ At(attn_mask, <<0, 0, 4>>) = -100

\* the range (0, 1 or 2) of index i on axis a: [0, size - window),
\* [size - window, size - shift) or [size - shift, size)
RangeOf(a, i) ==
    IF i < vol[a] - window_size[a] THEN 0
    ELSE IF i < vol[a] - shift_size[a] THEN 1 ELSE 2

ShiftedEverywhere == \A a \in 1..3 : 0 < shift_size[a]

\* C8: when 0 < shift_size[i] < window_size[i] <= size[i] on all three axes,
\* the three slices of an axis partition it into [0, size - window),
\* [size - window, size - shift) and [size - shift, size); every voxel is
\* assigned a label exactly once, the label of voxel (d, h, w) is
\* 9*r(d) + 3*r(h) + r(w) with r the number of the range on its axis, and two
\* voxels have the same label iff they fall in the same range on every axis.
C8_Labels ==
    (Labelled /\ ShiftedEverywhere) =>
        /\ \A a \in 1..3 :
              AxisSlices(vol[a], window_size[a], shift_size[a])
                = <<0..(vol[a] - window_size[a] - 1),
                    (vol[a] - window_size[a])..(vol[a] - shift_size[a] - 1),
                    (vol[a] - shift_size[a])..(vol[a] - 1)>>
        /\ \A d \in 0..(vol[1] - 1), h \in 0..(vol[2] - 1), w \in 0..(vol[3] - 1) :
              /\ Len(writes[(d * vol[2] + h) * vol[3] + w + 1]) = 1
              /\ LabelAt(d, h, w)
                   = 9 * RangeOf(1, d) + 3 * RangeOf(2, h) + RangeOf(3, w)
              /\ \A d2 \in 0..(vol[1] - 1), h2 \in 0..(vol[2] - 1),
                    w2 \in 0..(vol[3] - 1) :
                    (LabelAt(d, h, w) = LabelAt(d2, h2, w2))
                      <=> /\ RangeOf(1, d) = RangeOf(1, d2)
                          /\ RangeOf(2, h) = RangeOf(2, h2)
                          /\ RangeOf(3, w) = RangeOf(3, w2)

\* a volume with three non-empty ranges on every axis: the last voxel has
\* label 26, the first 0, and one in the middle ranges 13
C8_Witness ==
    /\ Labelled
    /\ vol = <<3, 3, 3>>
    /\ window_size = <<2, 2, 2>>
    /\ shift_size = <<1, 1, 1>>
    /\ LabelAt(2, 2, 2) = 26
    /\ LabelAt(0, 0, 0) = 0
    /\ LabelAt(1, 1, 1) = 13
    /\ \A k \in 1..Len(writes) : Len(writes[k]) = 1

\* window row n has a masked entry
HasMasked(n) ==
    \E p \in 0..(WinLen - 1), q \in 0..(WinLen - 1) :
        At(attn_mask, <<n, p, q>>) = -100

\* window row n is the last window of an axis that is shifted
LastOnShiftedAxis(n) ==
    \E a \in 1..3 : shift_size[a] > 0 /\ BlockOf(n)[a] = NumWin(a) - 1

\* C9: for sizes divisible by window_size and
\* 0 <= shift_size[i] < window_size[i] <= size[i], the mask of a window holds
\* a -100 entry iff there is an axis with shift_size > 0 on which it is the
\* last window, and every other window's mask is all 0; with shift_size 0 on
\* all three axes the whole mask is 0.
C9_MaskedWindows ==
    pc = "done" =>
        /\ \A n \in 0..(NumWindows - 1) :
              /\ HasMasked(n) <=> LastOnShiftedAxis(n)
              /\ ~LastOnShiftedAxis(n) =>
                    \A p \in 0..(WinLen - 1), q \in 0..(WinLen - 1) :
                        At(attn_mask, <<n, p, q>>) = 0
        /\ shift_size = <<0, 0, 0>> =>
              \A k \in 1..Size(attn_mask) : attn_mask.data[k] = 0

\* a mask with the height unshifted: window 1 (last along the width only) is
\* masked, window 2 (last along the unshifted height only) is not, and the
\* unshifted axis was assigned more than once
C9_Witness ==
    /\ pc = "done"
    /\ vol = <<2, 4, 4>>
    /\ window_size = <<1, 2, 2>>
    /\ shift_size = <<0, 0, 1>>
    /\ HasMasked(1)
    /\ ~HasMasked(2)
    /\ HasMasked(3)
    /\ Len(writes[1]) > 1

----------------------------------------------------------------------------
(* MLP *)

\* Layer.__init__(**kwargs) and MLP.__init__
MLP(hidden_dim, output_dim, drop_rate, activation, kwargs) ==
    [name |-> kwargs.name,
     trainable |-> kwargs.trainable,
     dtype |-> kwargs.dtype,
     output_dim |-> output_dim,
     hidden_dim |-> hidden_dim,
     activation_identifier |-> activation,
     drop_rate |-> drop_rate,
     activation |-> [class |-> "Activation", activation |-> activation],
     fc1 |-> [class |-> "Dense", units |-> hidden_dim],
     fc2 |-> [class |-> "Dense", units |-> output_dim],
     dropout |-> [class |-> "Dropout", rate |-> drop_rate]]

\* f.update(g) of two dicts
Update(f, g) ==
    [k \in DOMAIN f \cup DOMAIN g |-> IF k \in DOMAIN g THEN g[k] ELSE f[k]]

\* Layer.get_config: the base layer's own constructor arguments
BaseConfig(l) == [name |-> l.name, trainable |-> l.trainable, dtype |-> l.dtype]

\* mutant: the two dimensions are stored under each other's key
get_config_swapped(l) ==
    Update(BaseConfig(l),
           [output_dim |-> l.hidden_dim,
            hidden_dim |-> l.output_dim,
            drop_rate |-> l.drop_rate,
            activation |-> l.activation_identifier])

get_config(l) ==
    Update(BaseConfig(l),
           [output_dim |-> l.output_dim,
            hidden_dim |-> l.hidden_dim,
            drop_rate |-> l.drop_rate,
            activation |-> l.activation_identifier])

\* MLP(**config): hidden_dim and output_dim are required (a config without
\* them is no argument list), drop_rate and activation have defaults, and
\* the other entries are the **kwargs of the base layer
FromConfig(c) ==
    MLP(c.hidden_dim, c.output_dim,
        IF "drop_rate" \in DOMAIN c THEN c.drop_rate ELSE 0,
        IF "activation" \in DOMAIN c THEN c.activation ELSE "gelu",
        [k \in DOMAIN c \ {"hidden_dim", "output_dim", "drop_rate", "activation"}
            |-> c[k]])

Units == 1..MaxUnits
\* drop rates, in percent
Rates == {0, 50}
LayerNames == {"mlp", "mlp_1"}

\* the constructor's arguments; a name that is not passed is generated by the
\* base layer
ArgSets(activations) ==
    [hidden_dim : Units, output_dim : Units, drop_rate : Rates,
     activation : activations, name : LayerNames, trainable : BOOLEAN]

Construct(a) ==
    MLP(a.hidden_dim, a.output_dim, a.drop_rate, a.activation,
        [name |-> a.name, trainable |-> a.trainable, dtype |-> "float32"])

InitConfig ==
    /\ pc = "get_config"
    /\ args \in ArgSets({"gelu", "relu", "linear"})
    /\ layer = Construct(args)
    /\ config = Null /\ layer2 = Null /\ config2 = Null
    /\ weights = Null /\ inp = Null /\ training = FALSE /\ out = Null
    /\ x = Null /\ window_size = <<>> /\ windows = Null /\ restored = Null
    /\ x_size = <<>> /\ shift_size = <<>> /\ gws = <<>>
    /\ vol = <<>> /\ img_mask = Null /\ writes = <<>> /\ attn_mask = Null

notMlp == <<x, window_size, windows, restored, x_size, shift_size, gws, vol,
            img_mask, writes, attn_mask>>

\* config = layer.get_config()
GetConfig ==
    /\ pc = "get_config"
    /\ config' = get_config(layer)
    /\ pc' = "from_config"
    /\ UNCHANGED <<args, layer, weights, inp, training, out, layer2, config2>>
    /\ UNCHANGED notMlp

\* layer2 = MLP(**config)
Reconstruct ==
    /\ pc = "from_config"
    /\ layer2' = FromConfig(config)
    /\ pc' = "get_config2"
    /\ UNCHANGED <<args, layer, weights, inp, training, out, config, config2>>
    /\ UNCHANGED notMlp

\* config2 = layer2.get_config()
GetConfig2 ==
    /\ pc = "get_config2"
    /\ config2' = get_config(layer2)
    /\ pc' = "done"
    /\ UNCHANGED <<args, layer, weights, inp, training, out, config, layer2>>
    /\ UNCHANGED notMlp

NextConfig == GetConfig \/ Reconstruct \/ GetConfig2

SpecConfig == InitConfig /\ [][NextConfig]_vars

\* C5: get_config() contains the keys output_dim, hidden_dim, drop_rate and
\* activation holding exactly the constructor's arguments (the activation
\* identifier as passed), and MLP(**layer.get_config()) is a layer whose
\* get_config() equals the original's.
C5_ConfigRoundTrip ==
    /\ pc \in {"from_config", "get_config2", "done"} =>
          /\ {"output_dim", "hidden_dim", "drop_rate", "activation"}
                \subseteq DOMAIN config
          /\ config.output_dim = args.output_dim
          /\ config.hidden_dim = args.hidden_dim
          /\ config.drop_rate = args.drop_rate
          /\ config.activation = args.activation
    /\ pc = "done" => config2 = config

\* a layer whose four arguments all differ from the defaults and from each
\* other, reconstructed from its config
C5_Witness ==
    /\ pc = "done"
    /\ args.hidden_dim = 2
    /\ args.output_dim = 1
    /\ args.drop_rate = 50
    /\ args.activation = "relu"
    /\ layer2.fc1.units = 2
    /\ layer2.fc2.units = 1
    /\ config2 = config

----------------------------------------------------------------------------
(* MLP.build and MLP.call *)

\* the values of a kernel (n_in x units) and of a bias (units) of a Dense
\* layer: some values in -1..1 and 0..1, one set per seed
Seeds == {0, 1, 2}
Kernel(seed, n_in, units) ==
    [i \in 1..n_in |-> [j \in 1..units |-> ((seed + i + 2 * j) % 3) - 1]]
Bias(seed, units) == [j \in 1..units |-> (seed + j) % 2]

\* Dense.build(input_shape): the kernel is (input_shape[-1], units)
DenseBuild(dense, input_shape, seed) ==
    [kernel |-> Kernel(seed, input_shape[Len(input_shape)], dense.units),
     bias |-> Bias(seed + 1, dense.units)]

\* MLP.build(input_shape): fc1 on input_shape, fc2 on
\* (*input_shape[1:-1], hidden_dim)
Build(l, input_shape, seed) ==
    [fc1 |-> DenseBuild(l.fc1, input_shape, seed),
     fc2 |-> DenseBuild(l.fc2,
                        SubSeq(input_shape, 2, Len(input_shape) - 1)
                          \o <<l.hidden_dim>>,
                        seed + 2)]

\* Dense.call: t . kernel + bias along the last axis
Dense(w, t) ==
    LET n == Len(t.shape)
        n_in == t.shape[n]
        units == Len(w.bias)
    IN  [shape |-> SubSeq(t.shape, 1, n - 1) \o <<units>>,
         data |-> [k \in 1..((Size(t) \div n_in) * units) |->
                      LET r == (k - 1) \div units
                          j == ((k - 1) % units) + 1
                      IN  SumTo([i \in 1..n_in |->
                                    t.data[r * n_in + i] * w.kernel[i][j]], n_in)
                            + w.bias[j]]]

\* Activation.call, for the identifiers with integer values
Activation(a, t) ==
    [t EXCEPT !.data = [k \in 1..Size(t) |->
                           IF a.activation = "relu" THEN Max(t.data[k], 0)
                           ELSE t.data[k]]]

\* mutant: the training flag is not passed on, the layer always drops
Dropout_always(d, t, train, drop) ==
    IF d.rate > 0
    THEN [t EXCEPT !.data = [k \in 1..Size(t) |->
                                IF k \in drop THEN 0
                                ELSE (t.data[k] * 100) \div (100 - d.rate)]]
    ELSE t

\* Dropout.call(t, training): the identity unless training with a rate above
\* 0; then the elements at the drawn positions are 0 and the others are
\* scaled by 1 / (1 - rate)
Dropout(d, t, train, drop) ==
    IF train /\ d.rate > 0
    THEN [t EXCEPT !.data = [k \in 1..Size(t) |->
                                IF k \in drop THEN 0
                                ELSE (t.data[k] * 100) \div (100 - d.rate)]]
    ELSE t

\* the inputs of call: (rows, channels) or (rows, tokens, channels), with
\* values in -2..2
Inputs ==
    {[shape |-> sh, data |-> [k \in 1..ProdFrom(sh, 1) |-> ((2 * k + o) % 5) - 2]] :
        sh \in {<<r, c>> : r \in 1..MaxRows, c \in Units}
               \cup {<<r, t, c>> : r \in 1..MaxRows, t \in 1..MaxRows, c \in Units},
        o \in {0, 1}}

InitMLP ==
    /\ pc = "build"
    /\ args \in ArgSets({"relu", "linear"})
    /\ args.name = "mlp" /\ args.trainable
    /\ layer = Construct(args)
    /\ inp \in Inputs
    /\ training \in BOOLEAN
    /\ weights = Null /\ out = Null
    /\ config = Null /\ layer2 = Null /\ config2 = Null
    /\ x = Null /\ window_size = <<>> /\ windows = Null /\ restored = Null
    /\ x_size = <<>> /\ shift_size = <<>> /\ gws = <<>>
    /\ vol = <<>> /\ img_mask = Null /\ writes = <<>> /\ attn_mask = Null

otherCall == <<args, layer, inp, training, config, layer2, config2, notMlp>>

\* layer.build(inp.shape); the weights are whatever initialisation and
\* training have made them
BuildLayer ==
    /\ pc = "build"
    /\ \E seed \in Seeds : weights' = Build(layer, inp.shape, seed)
    /\ pc' = "fc1"
    /\ UNCHANGED out
    /\ UNCHANGED otherCall

\* x = self.fc1(x)
CallFc1 ==
    /\ pc = "fc1"
    /\ out' = Dense(weights.fc1, inp)
    /\ pc' = "activation"
    /\ UNCHANGED weights
    /\ UNCHANGED otherCall

\* x = self.activation(x)
CallActivation ==
    /\ pc = "activation"
    /\ out' = Activation(layer.activation, out)
    /\ pc' = "dropout1"
    /\ UNCHANGED weights
    /\ UNCHANGED otherCall

\* x = self.dropout(x, training=training)
CallDropout1 ==
    /\ pc = "dropout1"
    /\ \E drop \in SUBSET (1..MaxDrop) :
          out' = Dropout(layer.dropout, out, training, drop)
    /\ pc' = "fc2"
    /\ UNCHANGED weights
    /\ UNCHANGED otherCall

\* x = self.fc2(x)
CallFc2 ==
    /\ pc = "fc2"
    /\ out' = Dense(weights.fc2, out)
    /\ pc' = "dropout2"
    /\ UNCHANGED weights
    /\ UNCHANGED otherCall

\* x = self.dropout(x, training=training); return x
CallDropout2 ==
    /\ pc = "dropout2"
    /\ \E drop \in SUBSET (1..MaxDrop) :
          out' = Dropout(layer.dropout, out, training, drop)
    /\ pc' = "done"
    /\ UNCHANGED weights
    /\ UNCHANGED otherCall

NextMLP ==
    \/ BuildLayer
    \/ CallFc1
    \/ CallActivation
    \/ CallDropout1
    \/ CallFc2
    \/ CallDropout2

SpecMLP == InitMLP /\ [][NextMLP]_vars

\* dropout does nothing in this call
DropoutInactive == ~training \/ args.drop_rate = 0

\* the hidden activations: activation(fc1(x))
Hidden == Activation(layer.activation, Dense(weights.fc1, inp))

\* C4: call applies fc1 (Dense hidden_dim), the activation, dropout, fc2
\* (Dense output_dim) and dropout, in this order, both dropouts with the
\* caller's training flag; so when dropout is inactive (training is false or
\* drop_rate is 0) the output is fc2(activation(fc1(x))), and the output has
\* the input's shape with the last dimension replaced by output_dim.
C4_Call ==
    /\ pc = "activation" => out = Dense(weights.fc1, inp)
    /\ pc = "dropout1" => out = Hidden
    /\ pc = "fc2" =>
          /\ out.shape = Hidden.shape
          /\ \A k \in 1..Size(out) :
                IF DropoutInactive THEN out.data[k] = Hidden.data[k]
                ELSE out.data[k] \in {0, (Hidden.data[k] * 100)
                                           \div (100 - args.drop_rate)}
    /\ (pc \in {"dropout2", "done"} /\ DropoutInactive) =>
          out = Dense(weights.fc2, Hidden)
    /\ pc = "done" =>
          out.shape = SubSeq(inp.shape, 1, Len(inp.shape) - 1)
                        \o <<args.output_dim>>

\* a call outside training of a layer with a drop rate, on an input of rank
\* 3, in which the activation has cut a value off
C4_Witness ==
    /\ pc = "done"
    /\ ~training
    /\ args.drop_rate = 50
    /\ args.activation = "relu"
    /\ args.hidden_dim = 2
    /\ args.output_dim = 1
    /\ inp.shape = <<2, 2, 2>>
    /\ out.shape = <<2, 2, 1>>
    /\ out = Dense(weights.fc2, Hidden)
    /\ out # Dense(weights.fc2, Dense(weights.fc1, inp))

====
